---- MODULE Spec2Model ----
(***************************************************************************)
(* A model of the Vision-Transformer classifier of model.py and of the    *)
(* training loop of train.py, and of the data loaders of dataset.py.      *)
(*                                                                        *)
(*   Spec      Transformer: construction, train()/eval(), forward passes  *)
(*   SpecAttn  Self_Attention.forward on one (batch, head) slice          *)
(*   SpecMHA   Multi_Headed_Attention.forward, element by element         *)
(*   SpecTrain train(): train_epoch and validate over the batches         *)
(*   SpecData  get_loader of dataset.py on the Mirflickr files            *)
(*                                                                        *)
(* Activations are symbolic terms: a node <<op, id, a, b>> names the      *)
(* operation, the module instance (or random draw) that applied it and    *)
(* its operands, so the data flow of a forward pass can be read off its   *)
(* result.                                                                *)
(***************************************************************************)
EXTENDS Integers, Sequences, FiniteSets, TLC

VARIABLES
    cfg,        \* arguments of Transformer.__init__
    data,       \* shape [B, H, W] of the image batches the loader yields
    model,      \* the constructed Transformer (or the failed construction)
    training,   \* nn.Module.training of the model and all its sub-modules
    rng,        \* draws taken so far from the global random generator
    calls,      \* forward passes started
    result,     \* outcome of the latest forward pass
    last,       \* outcome of the forward pass before it
    attn,       \* SpecAttn: one call of Self_Attention.forward
    mha,        \* SpecMHA: one call of Multi_Headed_Attention.forward
    loop,       \* SpecTrain: the run of train()
    ds          \* SpecData: get_loader("Mirflickr", ...) and its three loaders

vars == <<cfg, data, model, training, rng, calls, result, last, attn, mha, loop, ds>>

mainVars == <<cfg, data, model, training, rng, calls, result, last>>

-----------------------------------------------------------------------------
(* Bounds of the model *)

MaxSide == 3
MaxBlocks == 2
MaxCalls == 2

ImgSides == 1..MaxSide
PatchSizes == {1, 2}
HeadCounts == {1, 2}
EmbedDims == {2, 3, 4}
BlockCounts == 0..MaxBlocks
ClassCounts == {10}
BatchSizes == {1, 2}
Pixels == {0, 1}

Configs ==
    [img_side_len : ImgSides, patch_size : PatchSizes, n_heads : HeadCounts,
     n_blocks : BlockCounts, embed_dim : EmbedDims, num_classes : ClassCounts]

\* the batches of a loader all have one shape [B, channels, H, W], with the
\* n_channels channels the model was built for
Loaders == [B : BatchSizes, H : ImgSides, W : ImgSides]

\* an image batch of the loader; px names its pixel values
Batches(d) == {[B |-> d.B, H |-> d.H, W |-> d.W, px |-> p] : p \in Pixels}

-----------------------------------------------------------------------------
(* Symbolic activations *)

Nil == <<>>

Node(op, id, a, b) == <<op, id, a, b>>

Op(t) == IF t = Nil THEN "nil" ELSE t[1]

Id(t) == IF t = Nil THEN 0 ELSE t[2]

Left(t) == IF t = Nil THEN Nil ELSE t[3]

Right(t) == IF t = Nil THEN Nil ELSE t[4]

Error == [status |-> "error"]

Max(a, b) == IF a >= b THEN a ELSE b

-----------------------------------------------------------------------------
(* Construction *)

\* Patch_Embedding.__init__
Patch_Embedding_init(img_side_len, patch_size, embed_dim) ==
    [patch_size  |-> patch_size,
     embed_dim   |-> embed_dim,
     num_patches |-> (img_side_len \div patch_size) * (img_side_len \div patch_size) + 1]

\* Multi_Headed_Attention.__init__: the assert, then d_key
Multi_Headed_Attention_init(n_heads, embed_dim) ==
    IF embed_dim % n_heads # 0
    THEN Error
    ELSE [status |-> "ok", n_heads |-> n_heads, d_key |-> embed_dim \div n_heads]

\* Encoder.__init__: one Encoder_Block (one Multi_Headed_Attention) per block
Encoder_init(embed_dim, n_heads, n_blocks) ==
    LET layers == [i \in 1..n_blocks |-> Multi_Headed_Attention_init(n_heads, embed_dim)]
    IN  IF \E i \in 1..n_blocks : layers[i].status = "error"
        THEN Error
        ELSE [status |-> "ok", layers |-> layers]

\* Transformer.__init__
Transformer_init(c) ==
    LET pe  == Patch_Embedding_init(c.img_side_len, c.patch_size, c.embed_dim)
        enc == Encoder_init(c.embed_dim, c.n_heads, c.n_blocks)
    IN  IF enc.status = "error"
        THEN Error
        ELSE [status |-> "ok", positional_encoding |-> pe, encoder |-> enc.layers,
              embed_dim |-> c.embed_dim, num_classes |-> c.num_classes]

-----------------------------------------------------------------------------
(* Forward pass *)

\* faulty variant of Dropout: drops in eval mode too
Dropout_IgnoresMode(x, train, r) ==
    [t |-> Node("dropout", r, x, Nil), rng |-> r + 1]

\* nn.Dropout: random zeroing in training mode (one draw of the generator),
\* the identity in eval mode
Dropout(x, train, r) ==
    IF train
    THEN [t |-> Node("dropout", r, x, Nil), rng |-> r + 1]
    ELSE [t |-> x, rng |-> r]

\* output side of Conv2d(kernel_size = stride = patch_size), no padding
ConvOut(n, patch_size) == (n - patch_size) \div patch_size + 1

ClassToken == [kind |-> "cls", img |-> 0, row |-> 0, col |-> 0]

\* faulty variant of FlattenPatches: column-major order
FlattenPatches_ColumnMajor(b, hp, wp) ==
    [n \in 1..(hp * wp) |->
        [kind |-> "patch", img |-> b, row |-> (n - 1) % hp, col |-> (n - 1) \div hp]]

\* torch.flatten(x, 2) then transpose(1, 2): the patches of image b, row-major
FlattenPatches(b, hp, wp) ==
    [n \in 1..(hp * wp) |->
        [kind |-> "patch", img |-> b, row |-> (n - 1) \div wp, col |-> (n - 1) % wp]]

\* x + self.pos_encoding: broadcasting over the token axis
BroadcastOk(T, N) == T = N \/ T = 1 \/ N = 1

\* Patch_Embedding.forward
Patch_Embedding_forward(pe, inp, train, r) ==
    IF inp.H < pe.patch_size \/ inp.W < pe.patch_size
    THEN Error
    ELSE
      LET hp  == ConvOut(inp.H, pe.patch_size)
          wp  == ConvOut(inp.W, pe.patch_size)
          seq == [b \in 1..inp.B |-> <<ClassToken>> \o FlattenPatches(b, hp, wp)]
          T   == hp * wp + 1
          N   == pe.num_patches
          L   == Max(T, N)
          d   == Dropout(Node("patch_embedding", inp, Nil, Nil), train, r)
      IN  IF ~BroadcastOk(T, N)
          THEN Error
          ELSE [status |-> "ok",
                tokens |-> [b \in 1..inp.B |->
                              [n \in 1..L |->
                                 [src |-> seq[b][IF T = 1 THEN 1 ELSE n],
                                  pos |-> IF N = 1 THEN 1 ELSE n]]],
                shape  |-> <<inp.B, L, pe.embed_dim>>,
                t      |-> d.t,
                rng    |-> d.rng]

\* Multi_Headed_Attention.forward on the whole tensor: the result and its shape
Multi_Headed_Attention_forward(i, layer, x, shape, is_masked) ==
    LET split == <<shape[1], shape[2], layer.n_heads, layer.d_key>>
        heads == <<split[1], split[3], split[2], split[4]>>
        back  == <<heads[1], heads[3], heads[2], heads[4]>>
        width == layer.d_key * layer.n_heads
    IN  [t     |-> Node("attention", i, x, Node(IF is_masked THEN "causal" ELSE "full", 0, Nil, Nil)),
         shape |-> <<back[1], (back[1] * back[2] * back[3] * back[4]) \div (back[1] * width), width>>]

\* Position_wise_ffn.forward
Position_wise_ffn_forward(i, x) == Node("ffn", i, x, Nil)

\* Add_and_Norm.forward(input, output)
Add_and_Norm(id, input, output) == Node("norm", id, Node("add", id, input, output), Nil)

\* faulty variant of Encoder_Block.forward: the feed-forward reads the block's input
Encoder_Block_forward_FfnOnInput(i, layer, x, shape, train, r) ==
    LET attention_layer == Multi_Headed_Attention_forward(i, layer, x, shape, FALSE)
        d1  == Dropout(attention_layer.t, train, r)
        x1  == Add_and_Norm(2 * i - 1, d1.t, x)
        ffn == Position_wise_ffn_forward(i, x)
        d2  == Dropout(ffn, train, d1.rng)
    IN  [t |-> Add_and_Norm(2 * i, x1, d2.t), shape |-> attention_layer.shape, rng |-> d2.rng]

\* Encoder_Block.forward
Encoder_Block_forward(i, layer, x, shape, train, r) ==
    LET attention_layer == Multi_Headed_Attention_forward(i, layer, x, shape, FALSE)
        d1  == Dropout(attention_layer.t, train, r)
        x1  == Add_and_Norm(2 * i - 1, d1.t, x)
        ffn == Position_wise_ffn_forward(i, x1)
        d2  == Dropout(ffn, train, d1.rng)
    IN  [t |-> Add_and_Norm(2 * i, x1, d2.t), shape |-> attention_layer.shape, rng |-> d2.rng]

\* faulty variant of EncoderFrom: the loop stops one layer early
RECURSIVE EncoderFrom_StopsEarly(_, _, _, _, _, _)
EncoderFrom_StopsEarly(i, layers, x, shape, train, r) ==
    IF i >= Len(layers)
    THEN [t |-> x, shape |-> shape, rng |-> r]
    ELSE LET y == Encoder_Block_forward(i, layers[i], x, shape, train, r)
         IN  EncoderFrom_StopsEarly(i + 1, layers, y.t, y.shape, train, y.rng)

\* Encoder.forward: the loop over self.encoder_layers, from layer i on
RECURSIVE EncoderFrom(_, _, _, _, _, _)
EncoderFrom(i, layers, x, shape, train, r) ==
    IF i > Len(layers)
    THEN [t |-> x, shape |-> shape, rng |-> r]
    ELSE LET y == Encoder_Block_forward(i, layers[i], x, shape, train, r)
         IN  EncoderFrom(i + 1, layers, y.t, y.shape, train, y.rng)

Encoder_forward(layers, x, shape, train, r) == EncoderFrom(1, layers, x, shape, train, r)

\* encoder_output[:, 0, :], tanh, mlp_head
ClassHead(m, enc) ==
    [t     |-> Node("mlp_head", 0, Node("tanh", 0, Node("select", 0, enc.t, Nil), Nil), Nil),
     shape |-> <<enc.shape[1], m.num_classes>>]

\* Transformer.forward
Transformer_forward(m, inp, train, r) ==
    LET encoder_in == Patch_Embedding_forward(m.positional_encoding, inp, train, r)
    IN  IF encoder_in.status = "error"
        THEN [status |-> "error", input |-> inp, training |-> train, rng |-> r]
        ELSE
          LET encoder_output == Encoder_forward(m.encoder, encoder_in.t, encoder_in.shape,
                                                train, encoder_in.rng)
              output == ClassHead(m, encoder_output)
          IN  [status   |-> "ok",
               input    |-> inp,
               training |-> train,
               tokens   |-> encoder_in.tokens,
               embedded |-> encoder_in.shape,
               encoded  |-> encoder_output.shape,
               shape    |-> output.shape,
               out      |-> output.t,
               rng      |-> encoder_output.rng]

-----------------------------------------------------------------------------
(* Spec: the life of one Transformer *)

NoResult == [status |-> "none"]

Idle == [pc |-> "off"]

Init ==
    /\ cfg \in Configs
    /\ data \in Loaders
    /\ model = NoResult
    /\ training = TRUE
    /\ rng = 0
    /\ calls = 0
    /\ result = NoResult
    /\ last = NoResult
    /\ attn = Idle
    /\ mha = Idle
    /\ loop = Idle
    /\ ds = Idle

\* model = Transformer(...)
Construct ==
    /\ model.status = "none"
    /\ model' = Transformer_init(cfg)
    /\ UNCHANGED <<cfg, data, training, rng, calls, result, last, attn, mha, loop, ds>>

\* model.train()
SetTrain ==
    /\ model.status = "ok"
    /\ result.status # "error"
    /\ training' = TRUE
    /\ UNCHANGED <<cfg, data, model, rng, calls, result, last, attn, mha, loop, ds>>

\* model.eval()
SetEval ==
    /\ model.status = "ok"
    /\ result.status # "error"
    /\ training' = FALSE
    /\ UNCHANGED <<cfg, data, model, rng, calls, result, last, attn, mha, loop, ds>>

\* output = model(input, target); an exception ends the run, and the outputs
\* of the passes before it are dropped with it
Forward(inp) ==
    /\ model.status = "ok"
    /\ result.status # "error"
    /\ calls < MaxCalls
    /\ LET r == Transformer_forward(model, inp, training, rng)
       IN  /\ result' = [f \in DOMAIN r \ {"rng"} |-> r[f]]
           /\ rng' = r.rng
           /\ last' = IF r.status = "error" THEN NoResult ELSE result
    /\ calls' = calls + 1
    /\ UNCHANGED <<cfg, data, model, training, attn, mha, loop, ds>>

Next ==
    \/ Construct
    \/ SetTrain
    \/ SetEval
    \/ \E inp \in Batches(data) : Forward(inp)

Spec == Init /\ [][Next]_vars

-----------------------------------------------------------------------------
(* SpecAttn: Self_Attention.forward on one (batch, head) slice.            *)
(* q, k, v are L x d_k integer matrices.  Scores are held exactly, in      *)
(* units of 1/2; softmax weights are held unnormalised, in units of        *)
(* 1/1000, with their row sum beside them.                                 *)

MaxLen == 2

DKeys == {1, 4}

Zero(d) == [c \in 1..d |-> 0]

Unit(d) == [c \in 1..d |-> IF c = 1 THEN 1 ELSE 0]

NegUnit(d) == [c \in 1..d |-> IF c = 1 THEN -1 ELSE 0]

Ones(d) == [c \in 1..d |-> 1]

\* the rows q and k are drawn from, and those v is drawn from
QKRows(d) == {Zero(d), Unit(d), NegUnit(d), Ones(d)}

VRows(d) == {Zero(d), Unit(d)}

RECURSIVE SumTo(_, _)
SumTo(f, n) == IF n = 0 THEN 0 ELSE f[n] + SumTo(f, n - 1)

Dot(a, b) == SumTo([c \in 1..Len(a) |-> a[c] * b[c]], Len(a))

\* math.sqrt(d_k), for the perfect squares of DKeys
Sqrt(n) == CHOOSE r \in 0..n : r * r = n

\* the fill value of masked_fill
Sentinel == 1000000000

\* torch.matmul(q, k.transpose(-2, -1)) / math.sqrt(d_k), in units of 1/2
Scores(q, k) ==
    [i \in 1..Len(q) |-> [j \in 1..Len(k) |-> (2 * Dot(q[i], k[j])) \div Sqrt(Len(q[i]))]]

\* faulty variant of Mask: the triangle leaves out the diagonal
Mask_StrictLower(S, is_masked) ==
    [i \in 1..Len(S) |-> [j \in 1..Len(S[i]) |->
        /\ S[i][j] # 0
        /\ (is_masked => j < i)]]

\* mask = attention_weights != padding, and with is_masked: tril(...) & mask
Mask(S, is_masked) ==
    [i \in 1..Len(S) |-> [j \in 1..Len(S[i]) |->
        /\ S[i][j] # 0
        /\ (is_masked => j <= i)]]

\* attention_weights.masked_fill(mask == 0, -1e9), in units of 1/2
MaskedFill(S, mask) ==
    [i \in 1..Len(S) |-> [j \in 1..Len(S[i]) |->
        IF mask[i][j] THEN S[i][j] ELSE -(2 * Sentinel)]]

\* 1000 * exp(-n / 2) for n = 0, 1, 2, ...
ExpTable == <<1000, 607, 368, 223, 135, 82, 50, 30, 18, 11, 7, 4, 2, 2, 1>>

\* 1000 * exp(h / 2) for h <= 0; an exponent far below zero underflows to 0
ExpHalf(h) == IF 1 - h > Len(ExpTable) THEN 0 ELSE ExpTable[1 - h]

RowMax(row) == CHOOSE m \in {row[j] : j \in 1..Len(row)} : \A j \in 1..Len(row) : row[j] <= m

\* faulty variant of SoftmaxWeights: softmax along the columns (dim=-2)
SoftmaxWeights_AlongColumns(F) ==
    [i \in 1..Len(F) |-> [j \in 1..Len(F[i]) |->
        ExpHalf(F[i][j] - RowMax([r \in 1..Len(F) |-> F[r][j]]))]]

\* torch.softmax(attention_weights, dim=-1): exp(x - max) of every row
SoftmaxWeights(F) ==
    [i \in 1..Len(F) |-> [j \in 1..Len(F[i]) |-> ExpHalf(F[i][j] - RowMax(F[i]))]]

\* Self_Attention.forward(q, k, v, is_masked): row i, column c of the result
\* is num[i][c] / den[i]
Self_Attention_forward(q, k, v, is_masked) ==
    LET S    == Scores(q, k)
        mask == Mask(S, is_masked)
        F    == MaskedFill(S, mask)
        w    == SoftmaxWeights(F)
        d_k  == Len(q[1])
    IN  [scores  |-> S,
         mask    |-> mask,
         filled  |-> F,
         weights |-> w,
         den     |-> [i \in 1..Len(w) |-> SumTo(w[i], Len(w[i]))],
         num     |-> [i \in 1..Len(w) |-> [c \in 1..d_k |->
                        SumTo([j \in 1..Len(v) |-> w[i][j] * v[j][c]], Len(v))]]]

AttnInputs ==
    UNION {[q : [1..L -> QKRows(d)], k : [1..L -> QKRows(d)], v : [1..L -> VRows(d)],
            is_masked : BOOLEAN] : L \in 1..MaxLen, d \in DKeys}

MainIdle ==
    /\ cfg = Idle
    /\ data = Idle
    /\ model = NoResult
    /\ training = TRUE
    /\ rng = 0
    /\ calls = 0
    /\ result = NoResult
    /\ last = NoResult

InitAttn ==
    /\ MainIdle
    /\ \E a \in AttnInputs : attn = [pc |-> "call", in |-> a]
    /\ mha = Idle
    /\ loop = Idle
    /\ ds = Idle

\* self.attention(q, k, v, is_masked)
AttnForward ==
    /\ attn.pc = "call"
    /\ attn' = [pc  |-> "done",
                in  |-> attn.in,
                out |-> Self_Attention_forward(attn.in.q, attn.in.k, attn.in.v,
                                               attn.in.is_masked)]
    /\ UNCHANGED <<mainVars, mha, loop, ds>>

NextAttn == AttnForward

SpecAttn == InitAttn /\ [][NextAttn]_vars

-----------------------------------------------------------------------------
(* SpecMHA: Multi_Headed_Attention.forward, element by element.            *)
(* A tensor is its shape and its elements in row-major order; indices      *)
(* count from 0.  An element of a projection is named by the projection    *)
(* and its index <<b, s, c>>; an element of the attention output is the    *)
(* set of elements of q, k and v it is computed from.                      *)

MaxSeq == 3

MHAConfigs == [B : BatchSizes, S : 1..MaxSeq, n_heads : {1, 2, 3}, d_key : {1, 2}]

RECURSIVE Numel(_)
Numel(shape) == IF shape = <<>> THEN 1 ELSE Head(shape) * Numel(Tail(shape))

\* position in row-major order of index <<i, j, k, l>> of a 4-d tensor
Flat4(shape, i, j, k, l) == ((i * shape[2] + j) * shape[3] + k) * shape[4] + l + 1

\* the index <<i, j, k, l>> at position n
Unflat4(shape, n) ==
    LET m == n - 1
    IN  <<m \div (shape[2] * shape[3] * shape[4]),
          (m \div (shape[3] * shape[4])) % shape[2],
          (m \div shape[4]) % shape[3],
          m % shape[4]>>

At4(t, i, j, k, l) == t.data[Flat4(t.shape, i, j, k, l)]

\* nn.Linear on a [B, S, E] input: element <<b, s, c>> of the projection
Linear(name, B, S, E) ==
    [shape |-> <<B, S, E>>,
     data  |-> [n \in 1..(B * S * E) |->
                  <<name, (n - 1) \div (S * E), ((n - 1) \div E) % S, (n - 1) % E>>]]

\* Tensor.view(shape) of a contiguous tensor
View(t, shape) == [shape |-> shape, data |-> t.data]

\* Tensor.transpose(1, 2) of a 4-d tensor (then laid out contiguously)
Transpose12(t) ==
    LET sh == <<t.shape[1], t.shape[3], t.shape[2], t.shape[4]>>
    IN  [shape |-> sh,
         data  |-> [n \in 1..Len(t.data) |->
                      LET ix == Unflat4(sh, n)
                      IN  At4(t, ix[1], ix[3], ix[2], ix[4])]]

\* step 1: q.view(q.size(0), q.size(1), self.n_heads, self.d_key)
SplitHeads(t, n_heads, d_key) == View(t, <<t.shape[1], t.shape[2], n_heads, d_key>>)

\* faulty variant of SwapHeads: the two axes are relabelled, not transposed
SwapHeads_AsView(t) == View(t, <<t.shape[1], t.shape[3], t.shape[2], t.shape[4]>>)

\* step 2: q.transpose(1, 2)
SwapHeads(t) == Transpose12(t)

\* step 3: Self_Attention.forward on [B, H, S, D] tensors: element
\* <<b, h, s, d>> of matmul(softmax(matmul(q, k^T) / sqrt(d_k)), v) is
\* computed from row s of q, all of k and column d of v of slice <<b, h>>
AttentionReads(q, k, v) ==
    LET sh == q.shape
    IN  [shape |-> sh,
         data  |-> [n \in 1..Len(q.data) |->
                      LET ix == Unflat4(sh, n)
                      IN  [q |-> {At4(q, ix[1], ix[2], ix[3], e) : e \in 0..(sh[4] - 1)},
                           k |-> {At4(k, ix[1], ix[2], j, e) :
                                     j \in 0..(sh[3] - 1), e \in 0..(sh[4] - 1)},
                           v |-> {At4(v, ix[1], ix[2], j, ix[4]) : j \in 0..(sh[3] - 1)}]]]

\* step 4: output.transpose(1, 2).contiguous().view(output.size(0), -1, d_key * n_heads)
CombineHeads(o, n_heads, d_key) ==
    LET t == Transpose12(o)
        w == d_key * n_heads
    IN  View(t, <<t.shape[1], Numel(t.shape) \div (t.shape[1] * w), w>>)

InitMHA ==
    /\ MainIdle
    /\ attn = Idle
    /\ \E c \in MHAConfigs : mha = [pc |-> "project", cfg |-> c]
    /\ loop = Idle
    /\ ds = Idle

\* q = self.Wq(x); k = self.Wk(x); v = self.Wv(x)
MHAProject ==
    /\ mha.pc = "project"
    /\ LET c == mha.cfg
           E == c.n_heads * c.d_key
       IN  mha' = [pc |-> "split", cfg |-> c,
                   q |-> Linear("q", c.B, c.S, E),
                   k |-> Linear("k", c.B, c.S, E),
                   v |-> Linear("v", c.B, c.S, E)]
    /\ UNCHANGED <<mainVars, attn, loop, ds>>

MHASplit ==
    /\ mha.pc = "split"
    /\ mha' = [mha EXCEPT !.pc = "swap",
                          !.q = SplitHeads(@, mha.cfg.n_heads, mha.cfg.d_key),
                          !.k = SplitHeads(@, mha.cfg.n_heads, mha.cfg.d_key),
                          !.v = SplitHeads(@, mha.cfg.n_heads, mha.cfg.d_key)]
    /\ UNCHANGED <<mainVars, attn, loop, ds>>

MHASwap ==
    /\ mha.pc = "swap"
    /\ mha' = [mha EXCEPT !.pc = "attend",
                          !.q = SwapHeads(@), !.k = SwapHeads(@), !.v = SwapHeads(@)]
    /\ UNCHANGED <<mainVars, attn, loop, ds>>

MHAAttend ==
    /\ mha.pc = "attend"
    /\ mha' = [pc |-> "combine", cfg |-> mha.cfg,
               output |-> AttentionReads(mha.q, mha.k, mha.v)]
    /\ UNCHANGED <<mainVars, attn, loop, ds>>

MHACombine ==
    /\ mha.pc = "combine"
    /\ mha' = [pc |-> "done", cfg |-> mha.cfg,
               output |-> CombineHeads(mha.output, mha.cfg.n_heads, mha.cfg.d_key)]
    /\ UNCHANGED <<mainVars, attn, loop, ds>>

NextMHA ==
    \/ MHAProject
    \/ MHASplit
    \/ MHASwap
    \/ MHAAttend
    \/ MHACombine

SpecMHA == InitMHA /\ [][NextMHA]_vars

-----------------------------------------------------------------------------
(* SpecTrain: train(), that is train_epoch and validate for every epoch.   *)
(* params counts the updates of the parameters; fwd, bwd and steps count   *)
(* the forward passes, backward passes and optimizer steps of training,    *)
(* val_fwd the forward passes of validation.                               *)

MaxBatches == 2
MaxEpochs == 2

\* the statements of the batch loop of train_epoch, in program order
TrainBody_StepBeforeBackward == <<"forward", "zero_grad", "loss", "step", "backward", "metrics">>

TrainBody == <<"forward", "zero_grad", "loss", "backward", "step", "metrics">>

\* the statements of the batch loop of validate, in program order
ValBody == <<"forward", "metrics">>

\* validate(...) is called without load, which defaults to False
ValidateLoad == FALSE

\* model(input, target): the output is computed from the current parameters
ModelCall(l, kind) == [params |-> l.params, training |-> l.training, batch |-> l.batch, in |-> kind]

InitTrain ==
    /\ MainIdle
    /\ attn = Idle
    /\ mha = Idle
    /\ ds = Idle
    /\ \E n \in 1..MaxBatches, m \in 1..MaxBatches, e \in 1..MaxEpochs :
          loop = [pc |-> "train_epoch", num_epochs |-> e, n_train |-> n, n_val |-> m,
                  epoch |-> 0, batch |-> 0, i |-> 0,
                  training |-> TRUE, no_grad |-> FALSE,
                  params |-> 0, grads |-> "none", graph |-> FALSE,
                  fwd |-> 0, bwd |-> 0, steps |-> 0, val_fwd |-> 0,
                  output |-> Nil]

Stmt(body) == IF loop.i \in 1..Len(body) THEN body[loop.i] ELSE "none"

\* the next statement of the batch loop, or the next batch, or the loop's end
Advance(l, body, n, after) ==
    IF l.i < Len(body) THEN [l EXCEPT !.i = @ + 1]
    ELSE IF l.batch < n THEN [l EXCEPT !.i = 1, !.batch = @ + 1]
    ELSE [l EXCEPT !.pc = after, !.i = 0]

\* train_epoch: model.train() and the loop's first batch
TrainEpochStart ==
    /\ loop.pc = "train_epoch"
    /\ loop' = [loop EXCEPT !.pc = "train_batch", !.training = TRUE, !.batch = 1, !.i = 1]
    /\ UNCHANGED <<mainVars, attn, mha, ds>>

\* output = model(input, target)
TrainForward ==
    /\ loop.pc = "train_batch" /\ Stmt(TrainBody) = "forward"
    /\ loop' = Advance([loop EXCEPT !.output = ModelCall(loop, "train"),
                                    !.graph = ~loop.no_grad,
                                    !.fwd = @ + 1],
                       TrainBody, loop.n_train, "train_end")
    /\ UNCHANGED <<mainVars, attn, mha, ds>>

\* optimizer.zero_grad()
ZeroGrad ==
    /\ loop.pc = "train_batch" /\ Stmt(TrainBody) = "zero_grad"
    /\ loop' = Advance([loop EXCEPT !.grads = "zero"], TrainBody, loop.n_train, "train_end")
    /\ UNCHANGED <<mainVars, attn, mha, ds>>

\* loss = criterion(output.squeeze(), target)
Loss ==
    /\ loop.pc = "train_batch" /\ Stmt(TrainBody) = "loss"
    /\ loop' = Advance(loop, TrainBody, loop.n_train, "train_end")
    /\ UNCHANGED <<mainVars, attn, mha, ds>>

\* loss.backward(): reads the graph of the forward pass, fills the gradients
Backward ==
    /\ loop.pc = "train_batch" /\ Stmt(TrainBody) = "backward"
    /\ loop' = Advance([loop EXCEPT !.grads = "ready", !.graph = FALSE, !.bwd = @ + 1],
                       TrainBody, loop.n_train, "train_end")
    /\ UNCHANGED <<mainVars, attn, mha, ds>>

\* optimizer.step(): the one place that writes the parameters
OptimizerStep ==
    /\ loop.pc = "train_batch" /\ Stmt(TrainBody) = "step"
    /\ loop' = Advance([loop EXCEPT !.params = @ + 1, !.steps = @ + 1],
                       TrainBody, loop.n_train, "train_end")
    /\ UNCHANGED <<mainVars, attn, mha, ds>>

\* pred, total_loss, total_correct
TrainMetrics ==
    /\ loop.pc = "train_batch" /\ Stmt(TrainBody) = "metrics"
    /\ loop' = Advance(loop, TrainBody, loop.n_train, "train_end")
    /\ UNCHANGED <<mainVars, attn, mha, ds>>

\* accuracy, avg_loss, return; then validate(...) is called
TrainEpochEnd ==
    /\ loop.pc = "train_end"
    /\ loop' = [loop EXCEPT !.pc = "validate"]
    /\ UNCHANGED <<mainVars, attn, mha, ds>>

\* validate: the optional load_state_dict, model.eval(), torch.no_grad()
ValidateStart ==
    /\ loop.pc = "validate"
    /\ loop' = [loop EXCEPT !.pc = "val_batch", !.training = FALSE, !.no_grad = TRUE,
                            !.params = IF ValidateLoad THEN 0 ELSE @,
                            !.batch = 1, !.i = 1]
    /\ UNCHANGED <<mainVars, attn, mha, ds>>

\* output = model(input, target) under no_grad
ValForward ==
    /\ loop.pc = "val_batch" /\ Stmt(ValBody) = "forward"
    /\ loop' = Advance([loop EXCEPT !.output = ModelCall(loop, "val"),
                                    !.graph = ~loop.no_grad,
                                    !.val_fwd = @ + 1],
                       ValBody, loop.n_val, "val_end")
    /\ UNCHANGED <<mainVars, attn, mha, ds>>

\* loss, pred, total_loss, total_correct, all_targets, all_preds
ValMetrics ==
    /\ loop.pc = "val_batch" /\ Stmt(ValBody) = "metrics"
    /\ loop' = Advance(loop, ValBody, loop.n_val, "val_end")
    /\ UNCHANGED <<mainVars, attn, mha, ds>>

\* the confusion matrices, the return, wandb.log; then the next epoch
ValidateEnd ==
    /\ loop.pc = "val_end"
    /\ loop' = [loop EXCEPT !.no_grad = FALSE,
                            !.epoch = @ + 1,
                            !.pc = IF loop.epoch + 1 < loop.num_epochs
                                   THEN "train_epoch" ELSE "save"]
    /\ UNCHANGED <<mainVars, attn, mha, ds>>

\* after the epochs: scheduler.step() (no scheduler is set), torch.save(...)
SaveCheckpoint ==
    /\ loop.pc = "save"
    /\ loop' = [loop EXCEPT !.pc = "done"]
    /\ UNCHANGED <<mainVars, attn, mha, ds>>

NextTrain ==
    \/ TrainEpochStart
    \/ TrainForward
    \/ ZeroGrad
    \/ Loss
    \/ Backward
    \/ OptimizerStep
    \/ TrainMetrics
    \/ TrainEpochEnd
    \/ ValidateStart
    \/ ValForward
    \/ ValMetrics
    \/ ValidateEnd
    \/ SaveCheckpoint

SpecTrain == InitTrain /\ [][NextTrain]_vars

-----------------------------------------------------------------------------
(* SpecData: get_loader(dataset="Mirflickr", ...) and the items its three  *)
(* loaders serve.  An input file and its target file carry the same name   *)
(* in the two directories; the files are numbered 1..n in the order in     *)
(* which os.listdir returns the input directory, and a file's number       *)
(* stands for its name.                                                    *)

MaxFiles == 4

\* the orders in which n entries can be listed or drawn
Orders(n) == {l \in [1..n -> 1..n] : \A i, j \in 1..n : l[i] = l[j] => i = j}

\* Mirflickr.__init__ with both lists given
Mirflickr_init(data_list, target_list) ==
    [data_list |-> data_list, target_list |-> target_list]

\* Mirflickr.__len__
Mirflickr_len(d) == Len(d.data_list)

\* Mirflickr.__getitem__: the files loaded as image and as target
Mirflickr_getitem(d, index) ==
    [image |-> d.data_list[index], target |-> d.target_list[index]]

\* the fractions [0.7, 0.15, 0.15] of random_split, in hundredths
Fractions == <<70, 15, 15>>

\* random_split: floor(n * fraction) each, the remainder handed out one by
\* one from the first length on
SplitLengths(n) ==
    LET floors    == [k \in 1..3 |-> (n * Fractions[k]) \div 100]
        remainder == n - (floors[1] + floors[2] + floors[3])
    IN  [k \in 1..3 |-> floors[k] + (IF k <= remainder THEN 1 ELSE 0)]

\* torch.utils.data.Subset
Subset(dataset, indices) == [dataset |-> dataset, indices |-> indices]

\* random_split(dataset, [0.7, 0.15, 0.15], generator), perm being the
\* permutation the generator draws
random_split(dataset, perm) ==
    LET len == SplitLengths(Mirflickr_len(dataset))
    IN  <<Subset(dataset, SubSeq(perm, 1, len[1])),
          Subset(dataset, SubSeq(perm, len[1] + 1, len[1] + len[2])),
          Subset(dataset, SubSeq(perm, len[1] + len[2] + 1, len[1] + len[2] + len[3]))>>

\* the re-wrapping of one Subset: Mirflickr(root_dir, s.dataset.data_list,
\* s.dataset.target_list, transform, transform)
Rewrapped(s) == Mirflickr_init(s.dataset.data_list, s.dataset.target_list)

\* DataLoader(dataset, batch_size, shuffle, num_workers)
DataLoader(dataset, shuffle) == [dataset |-> dataset, shuffle |-> shuffle]

NothingServed == <<{}, {}, {}>>

InitData ==
    /\ MainIdle
    /\ attn = Idle
    /\ mha = Idle
    /\ loop = Idle
    /\ \E n \in 1..MaxFiles :
          ds = [pc |-> "get_loader", files |-> n, dataset |-> Nil, split |-> Nil,
                sets |-> Nil, loaders |-> Nil, served |-> NothingServed]

\* dataset = Mirflickr(root_dir): both lists come from os.listdir
MakeDataset ==
    /\ ds.pc = "get_loader"
    /\ \E target_list \in Orders(ds.files) :
          ds' = [ds EXCEPT !.pc = "dataset",
                           !.dataset = Mirflickr_init([i \in 1..ds.files |-> i], target_list)]
    /\ UNCHANGED <<mainVars, attn, mha, loop>>

\* trainset, valset, testset = random_split(dataset, [0.7, 0.15, 0.15], generator)
RandomSplit ==
    /\ ds.pc = "dataset"
    /\ \E perm \in Orders(Mirflickr_len(ds.dataset)) :
          ds' = [ds EXCEPT !.pc = "split",
                           !.split = random_split(ds.dataset, perm),
                           !.sets = random_split(ds.dataset, perm)]
    /\ UNCHANGED <<mainVars, attn, mha, loop>>

\* trainset = Mirflickr(root_dir, trainset.dataset.data_list, ...), and the
\* same for valset and testset
Rewrap ==
    /\ ds.pc = "split"
    /\ ds' = [ds EXCEPT !.pc = "wrapped",
                        !.sets = [k \in 1..3 |-> Rewrapped(ds.sets[k])]]
    /\ UNCHANGED <<mainVars, attn, mha, loop>>

\* the three DataLoaders, and return train_loader, val_loader, test_loader
MakeLoaders ==
    /\ ds.pc = "wrapped"
    /\ ds' = [ds EXCEPT !.pc = "loaders",
                        !.loaders = <<DataLoader(ds.sets[1], TRUE),
                                      DataLoader(ds.sets[2], FALSE),
                                      DataLoader(ds.sets[3], FALSE)>>]
    /\ UNCHANGED <<mainVars, attn, mha, loop>>

\* one epoch of loader k fetches each index of its dataset once: in any
\* order with shuffle, in index order without
Fetch(k, index) ==
    /\ ds.pc = "loaders"
    /\ index \in 1..Mirflickr_len(ds.loaders[k].dataset)
    /\ Mirflickr_getitem(ds.loaders[k].dataset, index) \notin ds.served[k]
    /\ ~ds.loaders[k].shuffle => index = Cardinality(ds.served[k]) + 1
    /\ ds' = [ds EXCEPT !.served[k] = @ \cup {Mirflickr_getitem(ds.loaders[k].dataset, index)}]
    /\ UNCHANGED <<mainVars, attn, mha, loop>>

NextData ==
    \/ MakeDataset
    \/ RandomSplit
    \/ Rewrap
    \/ MakeLoaders
    \/ \E k \in 1..3, index \in 1..MaxFiles : Fetch(k, index)

SpecData == InitData /\ [][NextData]_vars

-----------------------------------------------------------------------------
(* Claims about the Transformer, checked under Spec *)

\* the image batch of the latest forward pass
Image == result.input

\* the token count the strided projection gives at run time (patches + 1)
RuntimeTokens ==
    ConvOut(Image.H, cfg.patch_size) * ConvOut(Image.W, cfg.patch_size) + 1

PassDone == result.status \in {"ok", "error"}

\* C2: every non-square image, and every image whose side is not a multiple
\* of patch_size, ends the forward pass in an error: no token sequence or
\* logits are returned for it.
C2_ShapeViolationsFailFast ==
    (PassDone /\ (\/ Image.H # Image.W
                  \/ Image.H % cfg.patch_size # 0
                  \/ Image.W % cfg.patch_size # 0))
        => result.status = "error"

\* C3: with embed_dim not divisible by n_heads, construction raises an error
\* whatever n_blocks is; with an exact division every attention layer has
\* d_key = embed_dim / n_heads.
C3_ConstructionRejectsIndivisible ==
    model.status # "none" =>
        /\ (cfg.embed_dim % cfg.n_heads # 0 => model.status = "error")
        /\ (model.status = "ok" =>
              \A i \in 1..Len(model.encoder) :
                  model.encoder[i].d_key * cfg.n_heads = cfg.embed_dim)

\* C4: whenever the positional table length fixed at construction differs
\* from the run-time token count, the forward pass fails.
C4_TableMismatchIsFatal ==
    (/\ PassDone
     /\ Image.H >= cfg.patch_size
     /\ Image.W >= cfg.patch_size
     /\ model.positional_encoding.num_patches # RuntimeTokens)
        => result.status = "error"

\* the output of a sub-layer (with or without its dropout) applied to x
IsSublayerOutputOf(out, x) ==
    LET s == IF Op(out) = "dropout" THEN Left(out) ELSE out
    IN  Op(s) \in {"attention", "ffn"} /\ Left(s) = x

\* every use of Add_and_Norm in t got (pre-sublayer input, sub-layer output)
RECURSIVE AddsInOrder(_)
AddsInOrder(t) ==
    \/ t = Nil
    \/ /\ Op(t) = "add" => IsSublayerOutputOf(Right(t), Left(t))
       /\ AddsInOrder(Left(t))
       /\ AddsInOrder(Right(t))

\* C5: at both uses in Encoder_Block.forward, Add_and_Norm gets the
\* pre-sublayer input as its first argument and the sub-layer's output as
\* its second.
C5_ResidualArgumentOrder ==
    result.status = "ok" => AddsInOrder(result.out)

\* k: patches per side fixed at construction
PatchesPerSide == cfg.img_side_len \div cfg.patch_size

\* an H x H image with H a multiple of patch_size and H / patch_size = k
ValidImage ==
    /\ Image.H = Image.W
    /\ Image.H % cfg.patch_size = 0
    /\ Image.H \div cfg.patch_size = PatchesPerSide

\* C6: for a valid configuration and image, Patch_Embedding.forward returns,
\* for every batch element, k^2 + 1 tokens of dimension embed_dim: the class
\* token first, then the k^2 patches in row-major order.
C6_PatchSequenceLayout ==
    (PassDone /\ ValidImage) =>
        LET k == PatchesPerSide
        IN  /\ result.status = "ok"
            /\ result.embedded = <<Image.B, k * k + 1, cfg.embed_dim>>
            /\ DOMAIN result.tokens = 1..Image.B
            /\ \A b \in 1..Image.B :
                  /\ Len(result.tokens[b]) = k * k + 1
                  /\ result.tokens[b][1].src = ClassToken
                  /\ \A r \in 0..(k - 1), c \in 0..(k - 1) :
                        result.tokens[b][2 + r * k + c].src =
                            [kind |-> "patch", img |-> b, row |-> r, col |-> c]

C6_Witness ==
    /\ result.status = "ok"
    /\ ValidImage
    /\ PatchesPerSide >= 2
    /\ Image.B = 2

StripDropout(t) == IF Op(t) = "dropout" THEN Left(t) ELSE t

\* the attention node inside the output t of an encoder block
AttentionOf(t) ==
    LET add1 == Left(Left(Left(t)))
        a    == StripDropout(Left(add1))
        b    == StripDropout(Right(add1))
    IN  IF Op(a) = "attention" THEN a ELSE b

\* the blocks applied to produce t, innermost first
RECURSIVE BlocksApplied(_)
BlocksApplied(t) ==
    IF Op(t) = "norm"
    THEN Append(BlocksApplied(Left(AttentionOf(t))), Id(AttentionOf(t)))
    ELSE <<>>

\* what the innermost block was applied to
RECURSIVE EncoderInput(_)
EncoderInput(t) ==
    IF Op(t) = "norm" THEN EncoderInput(Left(AttentionOf(t))) ELSE t

\* C7: a forward pass applies the n_blocks encoder blocks once each, in list
\* order, each to the output of the one before it (the first to the patch
\* embedding), computes the logits from row 0 of the final sequence, and
\* returns shape [batch, num_classes].
C7_ForwardContract ==
    result.status = "ok" =>
        LET sel == Left(Left(result.out))
        IN  /\ Op(result.out) = "mlp_head"
            /\ Op(Left(result.out)) = "tanh"
            /\ Op(sel) = "select"
            /\ Id(sel) = 0
            /\ BlocksApplied(Left(sel)) = [i \in 1..cfg.n_blocks |-> i]
            /\ Op(StripDropout(EncoderInput(Left(sel)))) = "patch_embedding"
            /\ Id(StripDropout(EncoderInput(Left(sel)))) = Image
            /\ result.encoded = result.embedded
            /\ result.shape = <<Image.B, cfg.num_classes>>

C7_Witness ==
    /\ result.status = "ok"
    /\ cfg.n_blocks = 2
    /\ Image.B = 2

\* t holds no dropout node
RECURSIVE NoDropout(_)
NoDropout(t) ==
    \/ t = Nil
    \/ /\ Op(t) # "dropout"
       /\ NoDropout(Left(t))
       /\ NoDropout(Right(t))

\* C10: two forward passes in eval mode on the same input (the parameters
\* are the same) give the same output, and no dropout acts in either.
C10_EvalDeterminism ==
    (/\ result.status = "ok"
     /\ last.status = "ok"
     /\ ~result.training
     /\ ~last.training
     /\ result.input = last.input)
        => /\ result.out = last.out
           /\ result.tokens = last.tokens
           /\ NoDropout(result.out)
           /\ NoDropout(last.out)

C10_Witness ==
    /\ result.status = "ok"
    /\ last.status = "ok"
    /\ ~result.training
    /\ ~last.training
    /\ result.input = last.input
    /\ cfg.n_blocks = 2

\* the data flow of the encoder block whose output is t, in a pass with the
\* given mode: attention on the block's input x without the causal mask, its
\* dropout, norm(add) of that with x giving x1, feed-forward on x1, its
\* dropout drawn after the attention's, norm(add) of x1 with that
BlockDataFlow(t, train) ==
    LET add2 == Left(t)
        x1   == Left(add2)
        f    == Right(add2)
        add1 == Left(x1)
        attentionFirst == Op(StripDropout(Left(add1))) = "attention"
        a    == IF attentionFirst THEN Left(add1) ELSE Right(add1)
        x    == IF attentionFirst THEN Right(add1) ELSE Left(add1)
        att  == StripDropout(a)
        ffn  == StripDropout(f)
    IN  /\ Op(t) = "norm" /\ Op(add2) = "add" /\ Id(add2) = Id(t)
        /\ Op(x1) = "norm" /\ Op(add1) = "add" /\ Id(add1) = Id(x1)
        /\ Id(t) = Id(x1) + 1
        /\ Op(att) = "attention"
        /\ Left(att) = x
        /\ Right(att) = Node("full", 0, Nil, Nil)
        /\ Op(ffn) = "ffn"
        /\ Id(ffn) = Id(att)
        /\ Left(ffn) = x1
        /\ IF train
           THEN /\ Op(a) = "dropout"
                /\ Op(f) = "dropout"
                /\ Id(f) = Id(a) + 1
           ELSE a = att /\ f = ffn

\* every one of the n blocks under t has the data flow of BlockDataFlow
RECURSIVE AllBlocksFlow(_, _, _)
AllBlocksFlow(t, n, train) ==
    \/ n = 0
    \/ /\ BlockDataFlow(t, train)
       /\ AllBlocksFlow(Left(AttentionOf(t)), n - 1, train)

\* C13: every encoder block of a forward pass runs attention, dropout, first
\* residual+normalize, feed-forward, dropout, second residual+normalize, in
\* that order and all of them; the feed-forward and the second residual read
\* x1, the result of the first residual+normalize; the block's output has the
\* shape of its input; attention is called with the causal flag false.
C13_BlockDataFlow ==
    result.status = "ok" =>
        /\ AllBlocksFlow(Left(Left(Left(result.out))), cfg.n_blocks, result.training)
        /\ \A i \in 1..cfg.n_blocks :
              Encoder_Block_forward(i, model.encoder[i], Nil, result.embedded,
                                    result.training, 0).shape = result.embedded
        /\ result.encoded = result.embedded

C13_Witness ==
    /\ result.status = "ok"
    /\ last.status = "ok"
    /\ cfg.n_blocks = 2
    /\ cfg.n_heads = 2
    /\ result.training
    /\ ~last.training

-----------------------------------------------------------------------------
(* Claims about Self_Attention.forward, checked under SpecAttn *)

\* the value tensors that agree with v on rows 1..i
PerturbedAfter(v, i) ==
    {v2 \in [1..Len(v) -> VRows(Len(v[1]))] : \A j \in 1..i : v2[j] = v[j]}

\* row i of two results is the same vector of fractions
SameRow(a, b, i) ==
    \A c \in 1..Len(a.num[i]) : a.num[i][c] * b.den[i] = b.num[i][c] * a.den[i]

\* C1: with is_masked, the output at position i is unchanged when v is
\* changed at positions j > i, for every q and k.
C1_CausalNonInterference ==
    (attn.pc = "done" /\ attn.in.is_masked) =>
        \A i \in 1..Len(attn.in.v) :
            \A v2 \in PerturbedAfter(attn.in.v, i) :
                SameRow(attn.out,
                        Self_Attention_forward(attn.in.q, attn.in.k, v2, TRUE), i)

\* C11: position (i, j) keeps its raw score iff the score is nonzero and
\* (causal is false or j <= i); every other position holds the sentinel -1e9
\* before softmax.  Without causal only the nonzero-score mask applies.
C11_MaskSemantics ==
    attn.pc = "done" =>
        LET S == Scores(attn.in.q, attn.in.k)
            F == attn.out.filled
        IN  /\ attn.out.scores = S
            /\ \A i \in 1..Len(S) : \A j \in 1..Len(S) :
                  LET keep == S[i][j] # 0 /\ (~attn.in.is_masked \/ j <= i)
                  IN  /\ keep <=> F[i][j] = S[i][j]
                      /\ ~keep => F[i][j] = -(2 * Sentinel)
                      /\ ~attn.in.is_masked => (F[i][j] = S[i][j] <=> S[i][j] # 0)

\* a causal call with a nonzero score above the diagonal (masked by the
\* triangle alone) and a nonzero score on the diagonal (kept)
C11_Witness ==
    /\ attn.pc = "done"
    /\ attn.in.is_masked
    /\ Len(attn.in.q) >= 2
    /\ attn.out.scores[1][2] # 0
    /\ attn.out.filled[1][2] = -(2 * Sentinel)
    /\ attn.out.scores[2][2] # 0
    /\ attn.out.filled[2][2] = attn.out.scores[2][2]

\* every position of row i fails the combined mask
FullyMasked(i) ==
    \A j \in 1..Len(attn.out.scores[i]) :
        attn.out.scores[i][j] = 0 \/ (attn.in.is_masked /\ j > i)

\* C12: a row whose every score is masked out gets a uniform softmax, weight
\* 1 / L on each of the L positions (a well-defined one: the row sum is not
\* zero), and its output is the plain average of the L rows of v.
C12_FullyMaskedRowIsUniform ==
    attn.pc = "done" =>
        \A i \in 1..Len(attn.in.v) :
            FullyMasked(i) =>
                LET L == Len(attn.in.v)
                IN  /\ attn.out.den[i] > 0
                    /\ \A j \in 1..L : attn.out.weights[i][j] * L = attn.out.den[i]
                    /\ \A c \in 1..Len(attn.in.v[1]) :
                          attn.out.num[i][c] * L =
                              attn.out.den[i] * SumTo([j \in 1..L |-> attn.in.v[j][c]], L)

\* a fully masked row beside a row that is not, with unequal rows of v
C12_Witness ==
    /\ attn.pc = "done"
    /\ Len(attn.in.v) >= 2
    /\ FullyMasked(1)
    /\ ~FullyMasked(2)
    /\ attn.in.v[1] # attn.in.v[2]

-----------------------------------------------------------------------------
(* Claims about Multi_Headed_Attention.forward, checked under SpecMHA *)

\* C8: the output has the input's shape [batch, seq_len, embed_dim], and its
\* element <<b, t, h * d_key + d>> is element d of head h for token t of
\* batch element b: computed from columns h * d_key .. (h + 1) * d_key - 1
\* of the projected q (token t), k and v (all tokens) of that batch element.
C8_HeadLayout ==
    mha.pc = "done" =>
        LET c == mha.cfg
            D == c.d_key
            E == c.n_heads * c.d_key
            o == mha.output
        IN  /\ o.shape = <<c.B, c.S, E>>
            /\ Len(o.data) = c.B * c.S * E
            /\ \A b \in 0..(c.B - 1), t \in 0..(c.S - 1), col \in 0..(E - 1) :
                  LET h == col \div D
                      e == o.data[(b * c.S + t) * E + col + 1]
                  IN  /\ e.q = {<<"q", b, t, h * D + x>> : x \in 0..(D - 1)}
                      /\ e.k = {<<"k", b, j, h * D + x>> :
                                   j \in 0..(c.S - 1), x \in 0..(D - 1)}
                      /\ e.v = {<<"v", b, j, col>> : j \in 0..(c.S - 1)}

C8_Witness ==
    /\ mha.pc = "done"
    /\ mha.cfg.B = 2
    /\ mha.cfg.S >= 2
    /\ mha.cfg.n_heads >= 2
    /\ mha.cfg.d_key = 2

-----------------------------------------------------------------------------
(* Claims about train(), checked under SpecTrain *)

\* C9: the parameters change only in optimizer.step, which runs when the
\* backward pass of the current batch is over (no graph of a forward pass
\* is alive) and before the next forward pass; a forward pass of training or
\* validation leaves the parameters as they are and starts only when every
\* earlier batch has had its step.
C9_ParameterExclusivity ==
    [][/\ loop.params' # loop.params =>
            /\ loop.steps' = loop.steps + 1
            /\ loop.params' = loop.params + 1
            /\ ~loop.graph
            /\ loop.bwd = loop.fwd
            /\ loop.fwd = loop.steps + 1
            /\ loop.fwd' = loop.fwd
            /\ loop.val_fwd' = loop.val_fwd
       /\ (loop.fwd' # loop.fwd \/ loop.val_fwd' # loop.val_fwd) =>
            /\ loop.params' = loop.params
            /\ loop.output'.params = loop.params
            /\ loop.steps = loop.fwd
            /\ loop.bwd = loop.fwd
      ]_vars

C9_Witness ==
    /\ loop.pc = "done"
    /\ loop.steps >= 2
    /\ loop.val_fwd >= 2
    /\ loop.epoch = 2

-----------------------------------------------------------------------------
(* Claims about get_loader, checked under SpecData *)

\* the input files loader k draws from
FilesOf(k) ==
    LET d == ds.loaders[k].dataset
    IN  {d.data_list[i] : i \in 1..Mirflickr_len(d)}

\* the input files of the k-th subset made by random_split
SplitFiles(k) ==
    LET s == ds.split[k]
    IN  {s.dataset.data_list[s.indices[i]] : i \in 1..Len(s.indices)}

\* the input files loader k has served
ServedBy(k) == {item.image : item \in ds.served[k]}

\* C14: the train, validation and test loaders draw from pairwise disjoint
\* subsets of the files, the ones random_split made, of about 70%, 15% and
\* 15% of the files; no file is served by more than one loader; each served
\* input file comes with its own target file.
C14_MirflickrSplit ==
    ds.pc = "loaders" =>
        /\ \A k \in 1..3 : \A m \in 1..3 :
              k # m => /\ FilesOf(k) \cap FilesOf(m) = {}
                       /\ ServedBy(k) \cap ServedBy(m) = {}
        /\ \A k \in 1..3 :
              /\ FilesOf(k) = SplitFiles(k)
              /\ Cardinality(FilesOf(k)) = SplitLengths(ds.files)[k]
              /\ \A item \in ds.served[k] : item.target = item.image

====
